---- MODULE Spec2Model ----
(***************************************************************************)
(* A model of the QuestDB Node.js client binding (src/src/sender.cc,       *)
(* src/include/sender.h): one Sender object, its four native handles       *)
(* (err, opts, sender, buffer) and every method of its JavaScript          *)
(* prototype; SpecTwo adds a second Sender object of the same process.     *)
(*                                                                         *)
(* The binding calls the line-sender library (questdb/ilp/line_sender.h),  *)
(* whose code is not part of the sources.  The operators named             *)
(* line_sender_* model it from the specification (spec.md 4.1-4.3, 7).     *)
(* Everything else is translated from sender.cc.                           *)
(*                                                                         *)
(* A native handle is NULL, live (points to an allocated object) or freed  *)
(* (dangling: the object was released, the field still holds the address). *)
(* A library call through a NULL or freed handle, and a second release of  *)
(* a freed handle, are undefined behaviour: the model takes every outcome  *)
(* (the process dies, the call returns false, the call returns true).      *)
(***************************************************************************)
EXTENDS Integers, Sequences, FiniteSets, TLC

(***************************************************************************)
(* Bounds of the model.                                                    *)
(***************************************************************************)
LifeConn == 2       \* Spec: calls of connect() that reach line_sender_connect
LifeLeaked == 1     \* Spec: live objects of one kind that no field points to any more
LifeFields == 0     \* Spec: symbol/column fields held by the LineBuffer
LifeRows == 1       \* Spec: rows held by the LineBuffer
MaxConn == 1        \* SpecRows: calls of connect() that reach line_sender_connect
MaxLeaked == 0      \* SpecRows: live objects of one kind that no field points to
MaxFields == 2      \* SpecRows: symbol/column fields held by the LineBuffer
MaxRows == 2        \* SpecRows: rows held by the LineBuffer
IntBits == 8        \* the width that stands for the 64 bits of int64_t

(***************************************************************************)
(* JavaScript argument values: type tag t, string s, number n/d (d = 1 for *)
(* an integer, d = 2 for a half), boolean b.                               *)
(***************************************************************************)
JsString(s) == [t |-> "String", s |-> s, n |-> 0, d |-> 1, b |-> FALSE]
JsNumber(n, d) == [t |-> "Number", s |-> "", n |-> n, d |-> d, b |-> FALSE]
JsBoolean(b) == [t |-> "Boolean", s |-> "", n |-> 0, d |-> 1, b |-> b]
JsBigInt(n) == [t |-> "BigInt", s |-> "", n |-> n, d |-> 1, b |-> FALSE]
NoArg == [t |-> "None", s |-> "", n |-> 0, d |-> 1, b |-> FALSE]

IsString(v) == v.t = "String"
IsNumber(v) == v.t = "Number"
IsBigInt(v) == v.t = "BigInt"
IsBoolean(v) == v.t = "Boolean"

(***************************************************************************)
(* The inputs the actions draw from.                                       *)
(***************************************************************************)
UpHosts == {"db"}                  \* hosts that accept a connection
ReadableCAs == {"/ca.pem"}         \* CA files that exist
AcceptedKeys == {"k"}              \* private keys the server accepts
IllegalNames == {""}               \* names the library rejects

EndPointArgs ==
    { <<JsString("db"), JsNumber(9009, 1)>>,
      <<JsString("down"), JsNumber(9009, 1)>>,
      <<JsString("db")>>,
      <<JsNumber(1, 1), JsNumber(9009, 1)>>,
      <<JsString("db"), JsString("9009")>> }
CAArgs == { <<JsString("/ca.pem")>>, <<JsString("/no/such/file")>>, <<>>, <<JsNumber(1, 1)>> }
AuthArgs ==
    { <<JsString("u"), JsString("k"), JsString("x"), JsString("y")>>,
      <<JsString("u")>>,
      <<JsNumber(1, 1), JsString("k"), JsString("x"), JsString("y")>>,
      <<JsString("u"), JsNumber(1, 1), JsString("x"), JsString("y")>>,
      <<JsString("u"), JsString("k"), JsNumber(1, 1), JsString("y")>>,
      <<JsString("u"), JsString("k"), JsString("x"), JsNumber(1, 1)>> }
ConnectArgs == { <<>>, <<JsNumber(1, 1)>> }

(***************************************************************************)
(* The state of a call in progress: the Sender's fields, the objects they  *)
(* point to, and what the call has done so far.                            *)
(*   err, opts, sender, buffer   the four handles (sender.h:43-46)         *)
(*   cfg      the configuration object opts points to                      *)
(*   errMsg   the message of the error object err points to                *)
(*   bytes, rstate   the LineBuffer object buffer points to                *)
(*   leaked   live objects no field points to any more, per kind           *)
(*   dbl      per kind: an object was released a second time               *)
(*   crashed  the process died                                             *)
(*   ok       the return value of the last library call                    *)
(*   threw, thrown, teardowns, ub, sent   exceptions thrown and the last   *)
(*            message, HandleErr runs, undefined behaviour met and bytes   *)
(*            written to the transport by this call                        *)
(***************************************************************************)
NoCfg == [host |-> "", port |-> 0, tls |-> "None", ca |-> "", auth |-> <<>>]
Kinds == {"opts", "err", "buffer", "sender"}
NoLeak == [k \in Kinds |-> 0]
NoDbl == [k \in Kinds |-> FALSE]

Then(S, F(_)) == UNION { IF s.crashed THEN {s} ELSE F(s) : s \in S }

Crash(m) == [m EXCEPT !.crashed = TRUE, !.ub = TRUE]

\* isolate->ThrowException(Exception::TypeError(msg))
Throw(m, msg) == [m EXCEPT !.threw = @ + 1, !.thrown = msg]

\* A library call stores a new error object in *err_out and returns false.
Fail(m, msg) ==
    [m EXCEPT !.ok = FALSE, !.err = "live", !.errMsg = msg,
              !.leaked.err = @ + (IF m.err = "live" THEN 1 ELSE 0)]

Ok(m) == [m EXCEPT !.ok = TRUE]

\* A library call through a NULL or dangling handle.
Undefined(m) ==
    { Crash(m), Fail([m EXCEPT !.ub = TRUE], "undefined"), Ok([m EXCEPT !.ub = TRUE]) }

\* What releasing the object behind handle k does to the object's content.
Discard(m, k) ==
    CASE k = "opts" -> [m EXCEPT !.cfg = NoCfg]
      [] k = "err" -> [m EXCEPT !.errMsg = ""]
      [] k = "buffer" -> [m EXCEPT !.bytes = <<>>, !.rstate = "NeedTable"]
      [] k = "sender" -> m

\* line_sender_opts_free, line_sender_error_free, line_sender_buffer_free and
\* line_sender_close: a no-op on NULL, the release of a live object, and
\* undefined behaviour (a second release) on a dangling handle.
Release(m, k) ==
    CASE m[k] = "NULL" -> {m}
      [] m[k] = "live" -> { [Discard(m, k) EXCEPT ![k] = "freed"] }
      [] m[k] = "freed" -> { Crash([m EXCEPT !.dbl[k] = TRUE]),
                             [m EXCEPT !.dbl[k] = TRUE, !.ub = TRUE] }

line_sender_opts_free(m) == Release(m, "opts")
line_sender_error_free(m) == Release(m, "err")
line_sender_buffer_free(m) == Release(m, "buffer")
line_sender_close(m) == Release(m, "sender")

\* HandleErr without its last line, line_sender_close(instance->sender).
HandleErrNoClose(m) ==
    Then(Then(Then({Throw([m EXCEPT !.teardowns = @ + 1], m.errMsg)},
        line_sender_opts_free), line_sender_error_free), line_sender_buffer_free)

\* Sender::HandleErr: throw the error's message, then release all four handles;
\* no field is reset.
HandleErr(m) ==
    Then(Then(Then(Then({Throw([m EXCEPT !.teardowns = @ + 1], m.errMsg)},
        line_sender_opts_free), line_sender_error_free),
        line_sender_buffer_free), line_sender_close)

\* if (!library_call(...)) HandleErr(isolate, instance);
Checked(S) == Then(S, LAMBDA s : IF s.ok THEN {s} ELSE HandleErr(s))

\* line_sender_utf8_init rejects a byte string that is not valid UTF-8: the
\* bytes String::Utf8Value produces for a string with a lone surrogate.
BadUtf8 == {"\\uD800"}
line_sender_utf8_init(m, s) ==
    IF s \in BadUtf8 THEN {Fail(m, "InvalidArgument")} ELSE {Ok(m)}

\* line_sender_table_name_init and line_sender_column_name_init.
line_sender_name_init(m, s) ==
    IF s \in IllegalNames THEN {Fail(m, "InvalidArgument")} ELSE {Ok(m)}

(***************************************************************************)
(* Configuration.                                                          *)
(***************************************************************************)
\* line_sender_opts_new(host, port): the port parameter is a uint16_t.
line_sender_opts_new(m, host, port) ==
    { [m EXCEPT !.opts = "live",
                !.cfg = [NoCfg EXCEPT !.host = host, !.port = port % 65536],
                !.leaked.opts = @ + (IF m.opts = "live" THEN 1 ELSE 0)] }

line_sender_opts_tls(m) ==
    IF m.opts # "live" THEN { Crash(m), [m EXCEPT !.ub = TRUE] }
    ELSE { [m EXCEPT !.cfg.tls = "SystemCAs"] }

line_sender_opts_tls_ca(m, path) ==
    IF m.opts # "live" THEN { Crash(m), [m EXCEPT !.ub = TRUE] }
    ELSE { [m EXCEPT !.cfg.tls = "CustomCA", !.cfg.ca = path] }

line_sender_opts_auth(m, keys) ==
    IF m.opts # "live" THEN { Crash(m), [m EXCEPT !.ub = TRUE] }
    ELSE { [m EXCEPT !.cfg.auth = keys] }

\* The conversion of a double to an integer type: truncation towards zero.
Truncate(v) == IF v.n < 0 THEN 0 - ((0 - v.n) \div v.d) ELSE v.n \div v.d

\* Sender::DoEndPoint: a host that fails validation is passed on as the empty
\* string {0, NULL}.
DoEndPoint(m, host, port) ==
    Then(Checked(line_sender_utf8_init(m, host)),
         LAMBDA s : line_sender_opts_new(s, IF s.teardowns = m.teardowns THEN host ELSE "", port))

\* Sender::EndPoint
EndPoint(m, args) ==
    IF Len(args) < 2 THEN {Throw(m, "TypeError")}
    ELSE IF ~IsString(args[1]) THEN {Throw(m, "TypeError")}
    ELSE IF ~IsNumber(args[2]) THEN {Throw(m, "TypeError")}
    ELSE DoEndPoint(m, args[1].s, Truncate(args[2]))

\* Sender::EnableTLS
EnableTLS(m) == line_sender_opts_tls(m)

\* Sender::DoEnableTLSWithCA
DoEnableTLSWithCA(m, ca_path) ==
    Then(Checked(line_sender_utf8_init(m, ca_path)),
         LAMBDA s : line_sender_opts_tls_ca(s, IF s.teardowns = m.teardowns THEN ca_path ELSE ""))

\* Sender::EnableTLSWithCA
EnableTLSWithCA(m, args) ==
    IF Len(args) < 1 THEN {Throw(m, "TypeError")}
    ELSE IF ~IsString(args[1]) THEN {Throw(m, "TypeError")}
    ELSE DoEnableTLSWithCA(m, args[1].s)

\* Sender::DoWithAuth: the four fields are validated in turn, HandleErr after
\* each that fails, and the call goes on to line_sender_opts_auth regardless.
DoWithAuth(m, user_id, private_key, public_key_x, public_key_y) ==
    Then(Checked(Then(Checked(Then(Checked(Then(Checked(
        line_sender_utf8_init(m, user_id)),
        LAMBDA s : line_sender_utf8_init(s, private_key))),
        LAMBDA s : line_sender_utf8_init(s, public_key_x))),
        LAMBDA s : line_sender_utf8_init(s, public_key_y))),
        LAMBDA s : line_sender_opts_auth(s,
            IF s.teardowns = m.teardowns
            THEN <<user_id, private_key, public_key_x, public_key_y>> ELSE <<>>))

\* Sender::WithAuth
WithAuth(m, args) ==
    IF Len(args) < 4 THEN {Throw(m, "TypeError")}
    ELSE IF ~IsString(args[1]) THEN {Throw(m, "TypeError")}
    ELSE IF ~IsString(args[2]) THEN {Throw(m, "TypeError")}
    ELSE IF ~IsString(args[3]) THEN {Throw(m, "TypeError")}
    ELSE IF ~IsString(args[4]) THEN {Throw(m, "TypeError")}
    ELSE DoWithAuth(m, args[1].s, args[2].s, args[3].s, args[4].s)

(***************************************************************************)
(* Lifecycle.                                                              *)
(***************************************************************************)
\* Whether the server accepts a connection made with configuration c: the
\* socket opens, the CA file (if any) can be read, the key (if any) is accepted.
Reachable(c) ==
    /\ c.host \in UpHosts
    /\ c.tls = "CustomCA" => c.ca \in ReadableCAs
    /\ c.auth # <<>> => c.auth[2] \in AcceptedKeys

\* instance->sender = line_sender_connect(instance->opts, &err): the field is
\* overwritten with the new transport, or with NULL on failure.
line_sender_connect(m) ==
    LET lost == IF m.sender = "live" THEN 1 ELSE 0
        up == [m EXCEPT !.sender = "live", !.leaked.sender = @ + lost]
        down == [Fail(m, "ConnectionFailure") EXCEPT !.sender = "NULL", !.leaked.sender = @ + lost]
    IN  IF m.opts # "live"
        THEN { Crash(m), [up EXCEPT !.ub = TRUE], [down EXCEPT !.ub = TRUE] }
        ELSE IF Reachable(m.cfg) THEN {up} ELSE {down}

\* instance->buffer = line_sender_buffer_new(); line_sender_buffer_reserve(...)
line_sender_buffer_new(m) ==
    { [m EXCEPT !.buffer = "live", !.bytes = <<>>, !.rstate = "NeedTable",
                !.leaked.buffer = @ + (IF m.buffer = "live" THEN 1 ELSE 0)] }

\* DoConnect without the test of instance->sender: the buffer is allocated
\* and true returned whether or not the connection was made.
DoConnectNoCheck(m) ==
    Then(Then(line_sender_connect(m), line_sender_opts_free),
         LAMBDA s : { [u EXCEPT !.ret = "true"] :
                        u \in line_sender_buffer_new([s EXCEPT !.opts = "NULL", !.cfg = NoCfg]) })

\* Sender::DoConnect; ret is the boolean it returns.
DoConnect(m) ==
    Then(Then(line_sender_connect(m), line_sender_opts_free),
         LAMBDA s :
            LET t == [s EXCEPT !.opts = "NULL", !.cfg = NoCfg]
            IN  IF t.sender # "live" THEN { [t EXCEPT !.ret = "false"] }
                ELSE { [u EXCEPT !.ret = "true"] : u \in line_sender_buffer_new(t) })

\* Sender::Connect
Connect(m, args) ==
    IF Len(args) > 0 THEN {Throw(m, "TypeError")} ELSE DoConnect(m)

\* Sender::Close: the transport is released and the field keeps its value.
Close(m) == line_sender_close(m)

(***************************************************************************)
(* The LineBuffer (spec.md 4.2): bytes is the sequence of tokens written   *)
(* so far, rstate the state of the row being assembled.                    *)
(***************************************************************************)
\* Escaping of the protocol's reserved characters in a symbol or string value.
EscapeValue(s) ==
    CASE s = "n y" -> "n\\ y"
      [] s = "a,b" -> "a\\,b"
      [] OTHER -> s

EncodeString(s) == "\"" \o EscapeValue(s) \o "\""
EncodeBool(b) == IF b THEN "t" ELSE "f"
EncodeInt64(v) == ToString(v) \o "i"
EncodeTimestamp(micros) == ToString(micros) \o "t"
\* A double n/d with d = 1 or d = 2, in decimal.
EncodeFloat64(n, d) ==
    IF d = 1 THEN ToString(n) \o ".0"
    ELSE IF n < 0 THEN "-" \o ToString((0 - n) \div 2) \o ".5"
    ELSE ToString(n \div 2) \o ".5"

line_sender_buffer_table(m, name) ==
    IF m.buffer # "live" THEN Undefined(m)
    ELSE IF m.rstate # "NeedTable" THEN {Fail(m, "ProtocolOrderViolation")}
    ELSE {Ok([m EXCEPT !.bytes = @ \o <<name>>, !.rstate = "NeedFirstField"])}

line_sender_buffer_symbol(m, name, value) ==
    IF m.buffer # "live" THEN Undefined(m)
    ELSE IF m.rstate \notin {"NeedFirstField", "InSymbols"}
    THEN {Fail(m, "ProtocolOrderViolation")}
    ELSE {Ok([m EXCEPT !.bytes = @ \o <<",", name, "=", EscapeValue(value)>>,
                       !.rstate = "InSymbols"])}

\* line_sender_buffer_column_str, _bool, _i64, _f64 and _ts, given the encoded value.
line_sender_buffer_column(m, name, token) ==
    IF m.buffer # "live" THEN Undefined(m)
    ELSE IF m.rstate \notin {"NeedFirstField", "InSymbols", "InColumns"}
    THEN {Fail(m, "ProtocolOrderViolation")}
    ELSE {Ok([m EXCEPT !.bytes = @ \o <<(IF m.rstate = "InColumns" THEN "," ELSE " "),
                                        name, "=", token>>,
                       !.rstate = "InColumns"])}

line_sender_buffer_column_str(m, name, value) == line_sender_buffer_column(m, name, EncodeString(value))
line_sender_buffer_column_bool(m, name, value) == line_sender_buffer_column(m, name, EncodeBool(value))
line_sender_buffer_column_i64(m, name, value) == line_sender_buffer_column(m, name, EncodeInt64(value))
line_sender_buffer_column_f64(m, name, n, d) == line_sender_buffer_column(m, name, EncodeFloat64(n, d))
line_sender_buffer_column_ts(m, name, micros) == line_sender_buffer_column(m, name, EncodeTimestamp(micros))

line_sender_buffer_at(m, nanos) ==
    IF m.buffer # "live" THEN Undefined(m)
    ELSE IF m.rstate \notin {"NeedFirstField", "InSymbols", "InColumns"}
    THEN {Fail(m, "ProtocolOrderViolation")}
    ELSE {Ok([m EXCEPT !.bytes = @ \o <<" ", ToString(nanos), "\n">>, !.rstate = "NeedTable"])}

line_sender_buffer_at_now(m) ==
    IF m.buffer # "live" THEN Undefined(m)
    ELSE IF m.rstate \notin {"NeedFirstField", "InSymbols", "InColumns"}
    THEN {Fail(m, "ProtocolOrderViolation")}
    ELSE {Ok([m EXCEPT !.bytes = @ \o <<"\n">>, !.rstate = "NeedTable"])}

\* line_sender_flush that does not look at the state of the last row.
line_sender_flush_any(m, io) ==
    IF m.sender # "live" \/ m.buffer # "live" THEN Undefined(m)
    ELSE IF ~io THEN {Fail(m, "TransportFailure")}
    ELSE {Ok([m EXCEPT !.sent = m.bytes, !.bytes = <<>>, !.rstate = "NeedTable"])}

\* line_sender_flush(sender, buffer, &err): a buffer whose last row is not
\* terminated is refused; otherwise the bytes are written to the transport
\* (io: the write succeeds) and the buffer is cleared.
line_sender_flush(m, io) ==
    IF m.sender # "live" \/ m.buffer # "live" THEN Undefined(m)
    ELSE IF m.rstate # "NeedTable" THEN {Fail(m, "ProtocolOrderViolation")}
    ELSE IF ~io THEN {Fail(m, "TransportFailure")}
    ELSE {Ok([m EXCEPT !.sent = m.bytes, !.bytes = <<>>])}

(***************************************************************************)
(* Row building.  After a failed validation the call goes on, with the     *)
(* name or value left at {0, NULL}, to the next library call.              *)
(***************************************************************************)
\* int64_t is IntBits wide: MinInt64..MaxInt64.
RECURSIVE Pow2(_)
Pow2(k) == IF k = 0 THEN 1 ELSE 2 * Pow2(k - 1)
MaxInt64 == Pow2(IntBits - 1) - 1
MinInt64 == 0 - Pow2(IntBits - 1)

\* BigInt::Int64Value(): the low bits of the integer, read as an int64_t.
Int64Value(n) == ((n - MinInt64) % Pow2(IntBits)) + MinInt64

\* extract_int: a Number is converted double -> int64_t (truncation towards
\* zero); a BigInt is taken as its int64_t value (BigInt::Int64Value).
extract_int(v) ==
    IF IsNumber(v) THEN Truncate(v) ELSE Int64Value(v.n)

\* DoSetTable that ignores what line_sender_buffer_table returns.
DoSetTableUnchecked(m, table) ==
    Then(Checked(line_sender_name_init(m, table)),
        LAMBDA s : line_sender_buffer_table(s, table))

\* Sender::DoSetTable
DoSetTable(m, table) ==
    Checked(Then(Checked(line_sender_name_init(m, table)),
        LAMBDA s : line_sender_buffer_table(s, table)))

\* Sender::DoAddSymbol
DoAddSymbol(m, symbol, value) ==
    Checked(Then(Checked(Then(Checked(line_sender_name_init(m, symbol)),
        LAMBDA s : line_sender_utf8_init(s, value))),
        LAMBDA s : line_sender_buffer_symbol(s, symbol, value)))

\* DoAddString that writes the value with line_sender_buffer_symbol.
DoAddStringAsSymbol(m, column, value) ==
    Checked(Then(Checked(Then(Checked(line_sender_name_init(m, column)),
        LAMBDA s : line_sender_utf8_init(s, value))),
        LAMBDA s : line_sender_buffer_symbol(s, column, value)))

\* Sender::DoAddString
DoAddString(m, column, value) ==
    Checked(Then(Checked(Then(Checked(line_sender_name_init(m, column)),
        LAMBDA s : line_sender_utf8_init(s, value))),
        LAMBDA s : line_sender_buffer_column_str(s, column, value)))

\* Sender::DoAddBool
DoAddBool(m, column, value) ==
    Checked(Then(Checked(line_sender_name_init(m, column)),
        LAMBDA s : line_sender_buffer_column_bool(s, column, value)))

\* Sender::DoAddInt64
DoAddInt64(m, column, value) ==
    Checked(Then(Checked(line_sender_name_init(m, column)),
        LAMBDA s : line_sender_buffer_column_i64(s, column, value)))

\* Sender::DoAddFloat64
DoAddFloat64(m, column, n, d) ==
    Checked(Then(Checked(line_sender_name_init(m, column)),
        LAMBDA s : line_sender_buffer_column_f64(s, column, n, d)))

\* Sender::DoAddTimestamp
DoAddTimestamp(m, column, micros) ==
    Checked(Then(Checked(line_sender_name_init(m, column)),
        LAMBDA s : line_sender_buffer_column_ts(s, column, micros)))

\* Sender::SetTable
SetTable(m, args) ==
    IF Len(args) < 1 THEN {Throw(m, "TypeError")}
    ELSE IF ~IsString(args[1]) THEN {Throw(m, "TypeError")}
    ELSE DoSetTable(m, args[1].s)

\* Sender::AddSymbol
AddSymbol(m, args) ==
    IF Len(args) < 2 THEN {Throw(m, "TypeError")}
    ELSE IF ~IsString(args[1]) THEN {Throw(m, "TypeError")}
    ELSE IF ~IsString(args[2]) THEN {Throw(m, "TypeError")}
    ELSE DoAddSymbol(m, args[1].s, args[2].s)

\* Sender::AddString
AddString(m, args) ==
    IF Len(args) < 2 THEN {Throw(m, "TypeError")}
    ELSE IF ~IsString(args[1]) THEN {Throw(m, "TypeError")}
    ELSE IF ~IsString(args[2]) THEN {Throw(m, "TypeError")}
    ELSE DoAddString(m, args[1].s, args[2].s)

\* Sender::AddBool
AddBool(m, args) ==
    IF Len(args) < 2 THEN {Throw(m, "TypeError")}
    ELSE IF ~IsString(args[1]) THEN {Throw(m, "TypeError")}
    ELSE IF ~IsBoolean(args[2]) THEN {Throw(m, "TypeError")}
    ELSE DoAddBool(m, args[1].s, args[2].b)

\* Sender::AddFloat64
AddFloat64(m, args) ==
    IF Len(args) < 2 THEN {Throw(m, "TypeError")}
    ELSE IF ~IsString(args[1]) THEN {Throw(m, "TypeError")}
    ELSE IF ~IsNumber(args[2]) THEN {Throw(m, "TypeError")}
    ELSE DoAddFloat64(m, args[1].s, args[2].n, args[2].d)

\* Sender::AddInt64
AddInt64(m, args) ==
    IF Len(args) < 2 THEN {Throw(m, "TypeError")}
    ELSE IF ~IsString(args[1]) THEN {Throw(m, "TypeError")}
    ELSE IF ~IsNumber(args[2]) /\ ~IsBigInt(args[2]) THEN {Throw(m, "TypeError")}
    ELSE DoAddInt64(m, args[1].s, extract_int(args[2]))

\* Sender::AddTimestamp
AddTimestamp(m, args) ==
    IF Len(args) < 2 THEN {Throw(m, "TypeError")}
    ELSE IF ~IsString(args[1]) THEN {Throw(m, "TypeError")}
    ELSE IF ~IsNumber(args[2]) /\ ~IsBigInt(args[2]) THEN {Throw(m, "TypeError")}
    ELSE DoAddTimestamp(m, args[1].s, extract_int(args[2]))

\* At that terminates the row without its timestamp.
AtAsAtNow(m, args) ==
    IF Len(args) < 1 THEN {Throw(m, "TypeError")}
    ELSE IF ~IsNumber(args[1]) /\ ~IsBigInt(args[1]) THEN {Throw(m, "TypeError")}
    ELSE Checked(line_sender_buffer_at_now(m))

\* Sender::At
At(m, args) ==
    IF Len(args) < 1 THEN {Throw(m, "TypeError")}
    ELSE IF ~IsNumber(args[1]) /\ ~IsBigInt(args[1]) THEN {Throw(m, "TypeError")}
    ELSE Checked(line_sender_buffer_at(m, extract_int(args[1])))

\* Sender::AtNow
AtNow(m) == Checked(line_sender_buffer_at_now(m))

\* Flush that ignores what line_sender_flush returns.
FlushUnchecked(m, io) == line_sender_flush(m, io)

\* Sender::Flush
Flush(m, io) == Checked(line_sender_flush(m, io))

(***************************************************************************)
(* The arguments the row-building actions draw from.                       *)
(***************************************************************************)
TableArgs == { <<JsString("t")>>, <<JsString("")>>, <<>>, <<JsNumber(1, 1)>> }
SymbolArgs ==
    { <<JsString("a"), JsString("b")>>, <<JsString(""), JsString("b")>>,
      <<JsString("a")>>, <<JsNumber(1, 1), JsString("b")>>, <<JsString("a"), JsNumber(1, 1)>> }
StringArgs ==
    { <<JsString("s"), JsString("n y")>>, <<JsString(""), JsString("n y")>>,
      <<JsString("s")>>, <<JsNumber(1, 1), JsString("b")>>, <<JsString("s"), JsNumber(1, 1)>> }
BoolArgs ==
    { <<JsString("f"), JsBoolean(TRUE)>>, <<JsString(""), JsBoolean(TRUE)>>,
      <<JsString("f")>>, <<JsNumber(1, 1), JsBoolean(TRUE)>>, <<JsString("f"), JsNumber(1, 1)>> }
Float64Args ==
    { <<JsString("x"), JsNumber(47, 2)>>, <<JsString(""), JsNumber(47, 2)>>,
      <<JsString("x")>>, <<JsNumber(1, 1), JsNumber(47, 2)>>, <<JsString("x"), JsString("1")>> }
Int64Args ==
    { <<JsString("i"), JsNumber(5, 1)>>, <<JsString(""), JsNumber(5, 1)>>,
      <<JsString("i")>>, <<JsNumber(1, 1), JsNumber(5, 1)>>, <<JsString("i"), JsString("5")>> }
TimestampArgs ==
    { <<JsString("ts"), JsNumber(7, 1)>>, <<JsString(""), JsNumber(7, 1)>>,
      <<JsString("ts")>>, <<JsNumber(1, 1), JsNumber(7, 1)>>, <<JsString("ts"), JsString("7")>> }
AtArgs == { <<JsNumber(9, 1)>>, <<>>, <<JsString("9")>> }

\* Configuration arguments of the row-building specification: a plain endpoint.
PlainEndPointArgs == { <<JsString("db"), JsNumber(9009, 1)>>, <<JsString("down"), JsNumber(9009, 1)>> }

(***************************************************************************)
(* The state: the Sender's fields and native objects, the record of the    *)
(* last call, and the history the properties are stated over.              *)
(*   last      the last call: its name, what it threw, whether it ran into *)
(*             undefined behaviour, what it returned and sent, and the     *)
(*             state it started from                                       *)
(*   poisoned  HandleErr has run on this Sender                            *)
(*   closed    close() has been called on this Sender                      *)
(*   nconn     the calls of connect() that reached line_sender_connect     *)
(*   rowLog    the calls accepted for the row in progress                  *)
(*   expect    the rows completed since the buffer was last empty, as the  *)
(*             row grammar renders the calls that built them               *)
(*   peer      a second Sender object: its fields and native objects, and  *)
(*             aliased: its LineBuffer was allocated where the released    *)
(*             LineBuffer of the first Sender was                          *)
(***************************************************************************)
VARIABLES err, opts, sender, buffer, cfg, errMsg, bytes, rstate,
          leaked, dbl, crashed, last, poisoned, closed, nconn, rowLog, expect, peer

vars == <<err, opts, sender, buffer, cfg, errMsg, bytes, rstate,
          leaked, dbl, crashed, last, poisoned, closed, nconn, rowLog, expect, peer>>

RowOps == {"table", "symbol", "string", "boolean", "int64", "float64", "timestamp", "at", "atNow"}
FieldOps == {"symbol", "string", "boolean", "int64", "float64", "timestamp"}

Count(seq, tok) == Cardinality({i \in 1..Len(seq) : seq[i] = tok})
Fields(m) == Count(m.bytes, "=")
Rows(m) == Count(m.bytes, "\n") + (IF m.rstate = "NeedTable" THEN 0 ELSE 1)

\* The bounds of the model: maxLeaked bounds the objects leaked, maxFields and
\* maxRows the LineBuffer.
WithinBounds(m, maxLeaked, maxFields, maxRows) ==
    /\ \A k \in Kinds : m.leaked[k] <= maxLeaked
    /\ Fields(m) <= maxFields
    /\ Rows(m) <= maxRows

\* The row grammar: table(,key=value)*( key=value(,key=value)*)?( nanos)?\n
\* for the calls of log, in call order; log[1] is the table call.
RECURSIVE FieldBytes(_, _)
FieldBytes(log, i) ==
    IF i > Len(log) THEN <<>>
    ELSE LET e == log[i]
             sep == IF e.op = "symbol" \/ (i > 2 /\ log[i - 1].op # "symbol") THEN "," ELSE " "
         IN  (IF e.op \in {"at", "atNow"}
              THEN (IF e.op = "at" THEN <<" ", e.tok>> ELSE <<>>) \o <<"\n">>
              ELSE <<sep, e.key, "=", e.tok>>) \o FieldBytes(log, i + 1)
RowBytes(log) == <<log[1].key>> \o FieldBytes(log, 2)

\* The call as the row grammar sees it: its key and its value token.
Entry(op, args) ==
    [op |-> op,
     key |-> IF op \in {"at", "atNow"} THEN "" ELSE args[1].s,
     tok |-> CASE op = "symbol" -> EscapeValue(args[2].s)
               [] op = "string" -> EncodeString(args[2].s)
               [] op = "boolean" -> EncodeBool(args[2].b)
               [] op = "int64" -> EncodeInt64(args[2].n)
               [] op = "float64" -> EncodeFloat64(args[2].n, args[2].d)
               [] op = "timestamp" -> EncodeTimestamp(args[2].n)
               [] op = "at" -> ToString(args[1].n)
               [] OTHER -> ""]

\* A call the binding rejects for its arguments is recorded by its group: the
\* rejections of a group leave the state as it was.
Group(op) == IF op \in RowOps THEN "row" ELSE IF op = "connect" THEN op ELSE "config"

\* The numeric argument of a call: the port, the integer value, the timestamp.
NumArg(op, args) ==
    CASE op \in {"endpoint", "int64", "timestamp"} -> args[2]
      [] op = "at" -> args[1]
      [] OTHER -> NoArg

\* The state a call starts from.
Cur ==
    [err |-> err, opts |-> opts, sender |-> sender, buffer |-> buffer,
     cfg |-> cfg, errMsg |-> errMsg, bytes |-> bytes, rstate |-> rstate,
     leaked |-> leaked, dbl |-> dbl, crashed |-> FALSE,
     ok |-> TRUE, threw |-> 0, thrown |-> "", teardowns |-> 0, ub |-> FALSE,
     sent |-> <<>>, ret |-> ""]

\* The call ran on a live buffer, met no undefined behaviour and threw nothing.
Accepted(m) ==
    /\ buffer = "live" /\ m.buffer = "live"
    /\ m.threw = 0 /\ ~m.ub /\ ~m.crashed

\* A call named op with arguments args ends in state m.
Return(op, args, m) ==
    /\ err' = m.err
    /\ opts' = m.opts
    /\ sender' = m.sender
    /\ buffer' = m.buffer
    /\ cfg' = m.cfg
    /\ errMsg' = m.errMsg
    /\ bytes' = m.bytes
    /\ rstate' = m.rstate
    /\ leaked' = m.leaked
    /\ dbl' = m.dbl
    /\ crashed' = m.crashed
    /\ poisoned' = (poisoned \/ m.teardowns > 0)
    /\ closed' = (closed \/ op = "close")
    /\ nconn' = nconn + (IF op = "connect" /\ m.thrown # "TypeError" THEN 1 ELSE 0)
    /\ rowLog' = IF m.buffer # "live" \/ (op = "connect" /\ m.ret = "true") THEN <<>>
                 ELSE IF op \in RowOps /\ Accepted(m)
                 THEN (IF op \in {"at", "atNow"} THEN <<>> ELSE Append(rowLog, Entry(op, args)))
                 ELSE rowLog
    /\ expect' = IF m.buffer # "live" \/ (op = "connect" /\ m.ret = "true") THEN <<>>
                 ELSE IF op \in {"at", "atNow"} /\ Accepted(m)
                 THEN expect \o RowBytes(Append(rowLog, Entry(op, args)))
                 ELSE IF op = "flush" /\ Accepted(m) THEN <<>>
                 ELSE expect
    /\ last' = [op |-> IF m.thrown = "TypeError" THEN Group(op) ELSE op, threw |-> m.threw, thrown |-> m.thrown,
                teardowns |-> m.teardowns, ub |-> m.ub, ret |-> m.ret, sent |-> m.sent,
                conn |-> (sender = "live" /\ buffer = "live"), rstate |-> rstate,
                arg |-> IF m.thrown = "TypeError" THEN NoArg ELSE NumArg(op, args)]

\* A second Sender as Sender::New leaves it.
NoPeer ==
    [err |-> "NULL", opts |-> "NULL", sender |-> "NULL", buffer |-> "NULL",
     cfg |-> NoCfg, errMsg |-> "", bytes |-> <<>>, rstate |-> "NeedTable",
     leaked |-> NoLeak, dbl |-> NoDbl, aliased |-> FALSE]

\* Sender::New, Sender::Sender: every handle NULL.
Init ==
    /\ err = "NULL" /\ opts = "NULL" /\ sender = "NULL" /\ buffer = "NULL"
    /\ cfg = NoCfg /\ errMsg = "" /\ bytes = <<>> /\ rstate = "NeedTable"
    /\ leaked = NoLeak /\ dbl = NoDbl /\ crashed = FALSE
    /\ poisoned = FALSE /\ closed = FALSE /\ nconn = 0 /\ rowLog = <<>> /\ expect = <<>>
    /\ last = [op |-> "new", threw |-> 0, thrown |-> "", teardowns |-> 0,
               ub |-> FALSE, ret |-> "", sent |-> <<>>, conn |-> FALSE, rstate |-> "NeedTable",
               arg |-> NoArg]
    /\ peer = NoPeer

\* One call of a method of the Sender prototype (Sender::Init) with outcome m
\* within the bounds.  Nothing is said of a process after it died or ran into
\* undefined behaviour: the state that call left is the last one.
Call(op, args, m, B) ==
    /\ ~crashed /\ ~last.ub
    /\ WithinBounds(m, B[2], B[3], B[4])
    /\ op = "connect" /\ m.thrown # "TypeError" => nconn < B[1]
    /\ Return(op, args, m)
    /\ peer' = peer

EndPointCall(A, B) ==
    \E args \in A : \E m \in EndPoint(Cur, args) : Call("endpoint", args, m, B)

EnableTLSCall(B) ==
    \E m \in EnableTLS(Cur) : Call("enableTLS", <<>>, m, B)

EnableTLSWithCACall(A, B) ==
    \E args \in A : \E m \in EnableTLSWithCA(Cur, args) :
        Call("enableTLSWithCA", args, m, B)

WithAuthCall(A, B) ==
    \E args \in A : \E m \in WithAuth(Cur, args) : Call("withAuth", args, m, B)

ConnectCall(B) ==
    \E args \in ConnectArgs : \E m \in Connect(Cur, args) : Call("connect", args, m, B)

CloseCall(B) ==
    \E m \in Close(Cur) : Call("close", <<>>, m, B)

FlushCall(B) ==
    \E io \in BOOLEAN : \E m \in Flush(Cur, io) : Call("flush", <<>>, m, B)

SetTableCall(B) ==
    \E args \in TableArgs : \E m \in SetTable(Cur, args) : Call("table", args, m, B)

AddSymbolCall(B) ==
    \E args \in SymbolArgs : \E m \in AddSymbol(Cur, args) : Call("symbol", args, m, B)

AddStringCall(B) ==
    \E args \in StringArgs : \E m \in AddString(Cur, args) : Call("string", args, m, B)

AddBoolCall(B) ==
    \E args \in BoolArgs : \E m \in AddBool(Cur, args) : Call("boolean", args, m, B)

AddFloat64Call(B) ==
    \E args \in Float64Args : \E m \in AddFloat64(Cur, args) : Call("float64", args, m, B)

AddInt64Call(A, B) ==
    \E args \in A : \E m \in AddInt64(Cur, args) : Call("int64", args, m, B)

AddTimestampCall(A, B) ==
    \E args \in A : \E m \in AddTimestamp(Cur, args) : Call("timestamp", args, m, B)

AtCall(A, B) ==
    \E args \in A : \E m \in At(Cur, args) : Call("at", args, m, B)

AtNowCall(B) ==
    \E m \in AtNow(Cur) : Call("atNow", <<>>, m, B)

LifeBounds == <<LifeConn, LifeLeaked, LifeFields, LifeRows>>
RowBounds == <<MaxConn, MaxLeaked, MaxFields, MaxRows>>

\* Every method, with every configuration; the LineBuffer holds at most
\* LifeRows rows and LifeFields fields.
Next ==
    \/ EndPointCall(EndPointArgs, LifeBounds)
    \/ EnableTLSCall(LifeBounds)
    \/ EnableTLSWithCACall(CAArgs, LifeBounds)
    \/ WithAuthCall(AuthArgs, LifeBounds)
    \/ ConnectCall(LifeBounds)
    \/ CloseCall(LifeBounds)
    \/ FlushCall(LifeBounds)
    \/ SetTableCall(LifeBounds)
    \/ AddSymbolCall(LifeBounds)
    \/ AddStringCall(LifeBounds)
    \/ AddBoolCall(LifeBounds)
    \/ AddFloat64Call(LifeBounds)
    \/ AddInt64Call(Int64Args, LifeBounds)
    \/ AddTimestampCall(TimestampArgs, LifeBounds)
    \/ AtCall(AtArgs, LifeBounds)
    \/ AtNowCall(LifeBounds)

Spec == Init /\ [][Next]_vars

\* Row building over a plain endpoint; the LineBuffer holds at most MaxRows
\* rows and MaxFields fields.
NextRows ==
    \/ EndPointCall(PlainEndPointArgs, RowBounds)
    \/ ConnectCall(RowBounds)
    \/ CloseCall(RowBounds)
    \/ FlushCall(RowBounds)
    \/ SetTableCall(RowBounds)
    \/ AddSymbolCall(RowBounds)
    \/ AddStringCall(RowBounds)
    \/ AddBoolCall(RowBounds)
    \/ AddFloat64Call(RowBounds)
    \/ AddInt64Call(Int64Args, RowBounds)
    \/ AddTimestampCall(TimestampArgs, RowBounds)
    \/ AtCall(AtArgs, RowBounds)
    \/ AtNowCall(RowBounds)

SpecRows == Init /\ [][NextRows]_vars

\* Configuration with ports inside and outside 1..65535 and with strings that
\* are not valid UTF-8.
CfgEndPointArgs ==
    { <<JsString("db"), JsNumber(9009, 1)>>,
      <<JsString("db"), JsNumber(0, 1)>>,
      <<JsString("db"), JsNumber(0 - 1, 1)>>,
      <<JsString("db"), JsNumber(65536 + 9009, 1)>>,
      <<JsString("\\uD800"), JsNumber(9009, 1)>> }
CfgCAArgs == { <<JsString("/ca.pem")>>, <<JsString("\\uD800")>> }
CfgAuthArgs ==
    { <<JsString("u"), JsString("k"), JsString("x"), JsString("y")>>,
      <<JsString("u"), JsString("\\uD800"), JsString("x"), JsString("y")>> }

NextCfg ==
    \/ EndPointCall(CfgEndPointArgs, LifeBounds)
    \/ EnableTLSCall(LifeBounds)
    \/ EnableTLSWithCACall(CfgCAArgs, LifeBounds)
    \/ WithAuthCall(CfgAuthArgs, LifeBounds)
    \/ ConnectCall(LifeBounds)
    \/ CloseCall(LifeBounds)

SpecCfg == Init /\ [][NextCfg]_vars

\* Integer arguments: Numbers that are not integers, and BigInts at and
\* beyond the ends of the int64_t range.
NumInt64Args ==
    { <<JsString("i"), JsNumber(11, 2)>>, <<JsString("i"), JsNumber(0 - 11, 2)>>,
      <<JsString("i"), JsNumber(MaxInt64, 1)>>, <<JsString("i"), JsBigInt(MaxInt64 + 1)>> }
NumTimestampArgs ==
    { <<JsString("ts"), JsNumber(15, 2)>>, <<JsString("ts"), JsBigInt(MinInt64)>>,
      <<JsString("ts"), JsBigInt(MinInt64 - 1)>> }
NumAtArgs ==
    { <<JsNumber(19, 2)>>, <<JsBigInt(MaxInt64)>>, <<JsBigInt(Pow2(IntBits) + 9)>> }
UpEndPointArgs == { <<JsString("db"), JsNumber(9009, 1)>> }

NextNum ==
    \/ EndPointCall(UpEndPointArgs, RowBounds)
    \/ ConnectCall(RowBounds)
    \/ FlushCall(RowBounds)
    \/ SetTableCall(RowBounds)
    \/ AddInt64Call(NumInt64Args, RowBounds)
    \/ AddTimestampCall(NumTimestampArgs, RowBounds)
    \/ AtCall(NumAtArgs, RowBounds)

SpecNum == Init /\ [][NextNum]_vars

(***************************************************************************)
(* Two Sender objects in one process.  Each method works on the object it  *)
(* is called on (ObjectWrap::Unwrap of args.Holder()).  A handle HandleErr *)
(* left dangling may hold the address of an object allocated since: a      *)
(* library call through it then works on that object.                      *)
(***************************************************************************)
\* A call dispatched to its prototype method.
Run(op, m, args, io) ==
    CASE op = "endpoint" -> EndPoint(m, args)
      [] op = "connect" -> Connect(m, args)
      [] op = "flush" -> Flush(m, io)
      [] op = "table" -> SetTable(m, args)
      [] op = "at" -> At(m, args)
      [] op = "close" -> Close(m)

PeerCalls ==
    { <<"endpoint", <<JsString("db"), JsNumber(9009, 1)>>>>, <<"connect", <<>>>>,
      <<"flush", <<>>>>, <<"table", <<JsString("t")>>>>, <<"at", <<JsNumber(9, 1)>>>>,
      <<"close", <<>>>> }
DanglingCalls == { <<"table", <<JsString("t")>>>>, <<"at", <<JsNumber(9, 1)>>>> }

\* The state a call on the second Sender starts from.
PeerCur ==
    [err |-> peer.err, opts |-> peer.opts, sender |-> peer.sender, buffer |-> peer.buffer,
     cfg |-> peer.cfg, errMsg |-> peer.errMsg, bytes |-> peer.bytes, rstate |-> peer.rstate,
     leaked |-> peer.leaked, dbl |-> peer.dbl, crashed |-> FALSE,
     ok |-> TRUE, threw |-> 0, thrown |-> "", teardowns |-> 0, ub |-> FALSE,
     sent |-> <<>>, ret |-> ""]

\* One call of a method on the second Sender.  A LineBuffer it allocates while
\* the first Sender's buffer handle is dangling may get the released address.
PeerCall(B) ==
    \E c \in PeerCalls : \E io \in (IF c[1] = "flush" THEN BOOLEAN ELSE {TRUE}) :
    \E m \in Run(c[1], PeerCur, c[2], io) :
    \E al \in (IF m.buffer # "live" THEN {FALSE}
               ELSE IF peer.buffer = "live" THEN {peer.aliased}
               ELSE IF buffer = "freed" THEN BOOLEAN ELSE {FALSE}) :
        /\ ~crashed /\ ~last.ub
        /\ WithinBounds(m, B[2], B[3], B[4])
        /\ peer' = [err |-> m.err, opts |-> m.opts, sender |-> m.sender, buffer |-> m.buffer,
                    cfg |-> m.cfg, errMsg |-> m.errMsg, bytes |-> m.bytes, rstate |-> m.rstate,
                    leaked |-> m.leaked, dbl |-> m.dbl, aliased |-> al]
        /\ crashed' = m.crashed
        /\ last' = [op |-> "peer", threw |-> m.threw, thrown |-> m.thrown,
                    teardowns |-> m.teardowns, ub |-> m.ub, ret |-> m.ret, sent |-> m.sent,
                    conn |-> (peer.sender = "live" /\ peer.buffer = "live"),
                    rstate |-> peer.rstate, arg |-> NoArg]
        /\ UNCHANGED <<err, opts, sender, buffer, cfg, errMsg, bytes, rstate,
                       leaked, dbl, poisoned, closed, nconn, rowLog, expect>>

\* A row-building call on the first Sender after HandleErr released its
\* LineBuffer, when the dangling handle holds the address of the second
\* Sender's LineBuffer: the library works on that buffer.
DanglingCall(B) ==
    /\ buffer = "freed" /\ peer.buffer = "live" /\ peer.aliased
    /\ \E c \in DanglingCalls :
       \E m \in Run(c[1], [Cur EXCEPT !.buffer = "live", !.bytes = peer.bytes,
                                      !.rstate = peer.rstate, !.ub = TRUE], c[2], TRUE) :
            /\ ~crashed /\ ~last.ub
            /\ WithinBounds(m, B[2], B[3], B[4])
            /\ Return(c[1], c[2], [m EXCEPT !.buffer = "freed", !.bytes = <<>>,
                                            !.rstate = "NeedTable"])
            /\ peer' = [peer EXCEPT !.buffer = m.buffer, !.bytes = m.bytes,
                                    !.rstate = m.rstate, !.aliased = (m.buffer = "live")]

NextTwo ==
    \/ EndPointCall(UpEndPointArgs, RowBounds)
    \/ ConnectCall(RowBounds)
    \/ CloseCall(RowBounds)
    \/ FlushCall(RowBounds)
    \/ SetTableCall(RowBounds)
    \/ AtCall(AtArgs, RowBounds)
    \/ PeerCall(RowBounds)
    \/ DanglingCall(RowBounds)

SpecTwo == Init /\ [][NextTwo]_vars

(***************************************************************************)
(* Properties.                                                             *)
(***************************************************************************)
Connected == sender = "live" /\ buffer = "live"

\* The live objects of kind k: the one the field points to and the leaked ones.
Live(k) == leaked[k] + (IF Cur[k] = "live" THEN 1 ELSE 0)

\* C1, as stated: whenever a row-building call or flush reports an error on a
\* Connected Sender, the LineBuffer has been discarded and the Transport closed
\* when the call returns.
C1_AnyErrorTearsDown ==
    (last.op \in RowOps \cup {"flush", "row"} /\ last.conn /\ last.threw > 0 /\ ~crashed)
        => (buffer # "live" /\ sender # "live")

\* C1, amended: an error the library reports to a row-building call or flush on
\* a Connected Sender runs HandleErr, and when the call returns the LineBuffer,
\* the Transport, the options and the error object have all been released; an
\* error of the binding's own argument checks (TypeError) releases nothing and
\* leaves the Sender Connected.
C1_LibraryErrorTearsDown ==
    /\ (last.op \in RowOps \cup {"flush"} /\ last.threw > 0) => last.teardowns > 0
    /\ (last.op \in RowOps \cup {"flush"} /\ last.conn /\ last.teardowns > 0 /\ ~crashed)
        => (buffer = "freed" /\ sender = "freed" /\ opts # "live" /\ err = "freed")
    /\ (last.op = "row" /\ last.conn)
        => (last.threw = 1 /\ last.teardowns = 0 /\ Connected)

\* A row-building call or flush on a Connected Sender failed in the library and
\* HandleErr released the buffer and the transport.
C1_Witness ==
    /\ last.op \in RowOps \cup {"flush"} /\ last.conn
    /\ last.teardowns = 1 /\ ~last.ub
    /\ buffer = "freed" /\ sender = "freed"

\* C2: once a row-building call or flush has failed on a Sender, every later
\* row-building call and flush fails with a reported error (here: those that
\* meet no undefined behaviour).
C2_PoisonedCallsFail ==
    (poisoned /\ last.op \in RowOps \cup {"flush"} /\ ~last.ub) => last.threw > 0

\* C3: close() never raises and releases the Transport at most once, however
\* often and in whatever state it is called.
C3_CloseIdempotent ==
    last.op = "close" => (~last.ub /\ ~crashed /\ ~dbl["sender"] /\ last.threw = 0)

\* C5: after close() has been called the Sender is never Connected again
\* (here: by calls that meet no undefined behaviour).
C5_ClosedAbsorbing == (closed /\ ~last.ub) => ~Connected

\* C6: a Sender owns at most one live Transport and one live LineBuffer
\* (here: in the states reached without undefined behaviour).
C6_AtMostOne == ~last.ub => (Live("sender") <= 1 /\ Live("buffer") <= 1)

\* C4: connect(), called without arguments on a Sender that was never
\* connected and holds a configuration, never raises; if the server cannot be reached with that
\* configuration it returns false and the Sender holds no Transport, no
\* LineBuffer and no configuration, so that endpoint() and connect() can be
\* called again; if it can be reached connect() returns true, the LineBuffer is
\* allocated empty and the Sender is Connected.
C4_Connect ==
    [][(last'.op = "connect" /\ last'.thrown # "TypeError" /\ opts = "live" /\ buffer = "NULL")
        => /\ last'.threw = 0 /\ ~last'.ub /\ ~crashed'
           /\ opts' = "NULL"
           /\ IF Reachable(cfg)
              THEN last'.ret = "true" /\ Connected' /\ bytes' = <<>> /\ rstate' = "NeedTable"
              ELSE last'.ret = "false" /\ sender' = "NULL" /\ buffer' = "NULL"]_vars

\* connect() returned true on a Sender whose first connect() had failed: the
\* error object of the failed attempt is still there.
C4_Witness ==
    /\ last.op = "connect" /\ last.ret = "true" /\ ~last.ub
    /\ nconn = 2 /\ err = "live" /\ errMsg = "ConnectionFailure" /\ Connected

\* C7: symbol() after a column call of the same row fails with
\* ProtocolOrderViolation and leaves the Sender poisoned: the row-building call
\* or flush that follows fails with a reported error too.
C7_SymbolAfterColumnPoisons ==
    [][(/\ last.op = "symbol" /\ last.rstate = "InColumns" /\ last.conn
        /\ last'.op \in RowOps \cup {"flush"})
        => /\ last.thrown = "ProtocolOrderViolation" /\ sender = "freed" /\ buffer = "freed"
           /\ last'.threw > 0 /\ ~crashed']_vars

\* The tokens of the last row of a buffer whose rows are all terminated.
LastRow(seq) ==
    LET starts == {i \in 1..Len(seq) : i = 1 \/ seq[i - 1] = "\n"}
        first == CHOOSE i \in starts : \A j \in starts : j <= i
    IN  SubSeq(seq, first, Len(seq))

SymbolKeys == { a[1].s : a \in {b \in SymbolArgs : Len(b) = 2 /\ IsString(b[1])} }
FirstSpace(row) ==
    IF \E i \in 1..Len(row) : row[i] = " "
    THEN CHOOSE i \in 1..Len(row) : row[i] = " " /\ \A j \in 1..(i - 1) : row[j] # " "
    ELSE Len(row) + 1

\* C8: when at() or atNow() is accepted, the buffer holds the rows completed
\* before it followed by the row just built, rendered as the row grammar
\* prescribes from the accepted calls in call order; in that row the symbols
\* stand before the first space and the columns after it, and it ends with
\* exactly one newline.
C8_RowGrammar ==
    (last.op \in {"at", "atNow"} /\ last.threw = 0 /\ ~last.ub /\ buffer = "live")
        => /\ bytes = expect
           /\ LET row == LastRow(bytes)
              IN  /\ row[Len(row)] = "\n" /\ Count(row, "\n") = 1
                  /\ last.op = "at" => (Len(row) >= 4 /\ row[Len(row) - 2] = " ")
                  /\ \A i \in 2..Len(row) :
                        row[i] = "=" => (row[i - 1] \in SymbolKeys <=> i < FirstSpace(row))

\* at() completed a row with a symbol and a column, after an earlier row.
C8_Witness ==
    /\ last.op = "at" /\ last.threw = 0
    /\ bytes = <<"t", "\n", "t", ",", "a", "=", "b", " ", "x", "=", "23.5", " ", "9", "\n">>

\* C9: a flush() that succeeds on a Connected Sender writes to the Transport
\* exactly the rows completed since the last successful flush, in the order
\* they were terminated, and leaves the LineBuffer empty in state NeedTable and
\* the Sender Connected.
C9_FlushSendsCompletedRows ==
    [][(last'.op = "flush" /\ last'.threw = 0 /\ ~last'.ub /\ Connected)
        => /\ last'.sent = expect
           /\ bytes' = <<>> /\ rstate' = "NeedTable" /\ expect' = <<>>
           /\ Connected']_vars

\* A flush sent two rows and emptied the buffer.
C9_Witness ==
    /\ last.op = "flush" /\ last.threw = 0 /\ last.conn
    /\ Count(last.sent, "\n") = 2 /\ bytes = <<>> /\ Connected

C11_UnconnectedCallsFail ==
    [][(last'.op \in RowOps \cup {"flush"} /\ sender = "NULL" /\ buffer = "NULL")
        => (last'.threw > 0 /\ ~last'.ub /\ ~crashed' /\ last'.sent = <<>>)]_vars

\* C12: endpoint(host, port) fails with InvalidArgument for every port outside
\* 1..65535 and then neither creates nor changes the connection configuration.
C12_PortRangeChecked ==
    [][(last'.op = "endpoint" /\ Truncate(last'.arg) \notin 1..65535)
        => (last'.thrown = "InvalidArgument" /\ opts' = opts /\ cfg' = cfg)]_vars

\* C15: when endpoint, enableTLSWithCA or withAuth rejects an argument that is
\* not valid UTF-8, the stored configuration is exactly what it was before the
\* call (none is created or modified) and no field is left pointing to a
\* released object.
C15_ValidateBeforeCommit ==
    [][(last'.op \in {"endpoint", "enableTLSWithCA", "withAuth"} /\ last'.thrown = "InvalidArgument")
        => /\ opts' = opts /\ cfg' = cfg
           /\ err' # "freed" /\ opts' # "freed" /\ sender' # "freed" /\ buffer' # "freed"
           /\ ~last'.ub /\ ~crashed']_vars

\* The row is open: a column or the terminating timestamp may be written.
RowOpen == Connected /\ rstate \in {"NeedFirstField", "InSymbols", "InColumns"}

\* C13: int64(key, v), timestamp(key, v) and at(v) with a number v that is not
\* an integer fail with InvalidArgument and append nothing.
C13_NonIntegerRejected ==
    [][(last'.op \in {"int64", "timestamp", "at"} /\ RowOpen
            /\ IsNumber(last'.arg) /\ last'.arg.n % last'.arg.d # 0)
        => (last'.thrown = "InvalidArgument" /\ (buffer' = "live" => bytes' = bytes))]_vars

\* C14: an integer v of the int64_t range given to int64, timestamp or at is
\* written to the buffer as v itself; a BigInt outside the range is rejected
\* with InvalidArgument and nothing is written.
C14_Int64Exact ==
    [][(last'.op \in {"int64", "timestamp", "at"} /\ RowOpen /\ last'.arg.d = 1)
        => IF last'.arg.n \in MinInt64..MaxInt64
           THEN /\ last'.threw = 0 /\ Len(bytes') > Len(bytes)
                /\ last'.op = "int64" => bytes'[Len(bytes')] = ToString(last'.arg.n) \o "i"
                /\ last'.op = "timestamp" => bytes'[Len(bytes')] = ToString(last'.arg.n) \o "t"
                /\ last'.op = "at" => bytes'[Len(bytes') - 1] = ToString(last'.arg.n)
           ELSE last'.thrown = "InvalidArgument" /\ (buffer' = "live" => bytes' = bytes)]_vars

ConfigOps == {"endpoint", "enableTLS", "enableTLSWithCA", "withAuth"}

\* C16: connect() consumes the configuration (after it returns the Sender holds
\* none and the configuration object has been released, once), and a
\* configuration call made on a Connected Sender leaves the established
\* connection as it is.
C16_ConfigConsumed ==
    [][/\ (last'.op = "connect" /\ last'.thrown # "TypeError" /\ opts = "live")
            => (opts' = "NULL" /\ cfg' = NoCfg /\ ~dbl'["opts"] /\ leaked'["opts"] = leaked["opts"])
       /\ (last'.op \in ConfigOps /\ Connected)
            => (~crashed' /\ ~last'.ub /\ sender' = "live" /\ buffer' = "live" /\ bytes' = bytes)]_vars

\* C17: after close() on a Connected Sender, and after an error teardown, the
\* Transport, the LineBuffer, the configuration and the error object are all
\* released: no native object remains allocated.
C17_NoLeaks ==
    (((last.op = "close" /\ last.conn) \/ last.teardowns > 0) /\ ~last.ub /\ ~crashed)
        => \A k \in Kinds : Live(k) = 0

\* The completed portion of a buffer: its bytes up to the last newline.
Completed(seq) ==
    LET ends == {i \in 1..Len(seq) : seq[i] = "\n"}
    IN  IF ends = {} THEN <<>> ELSE SubSeq(seq, 1, CHOOSE i \in ends : \A j \in ends : j <= i)

\* The LineBuffer holds the rows completed since it was last empty, each ended
\* by its newline, then the row in progress, if any, as the calls accepted for
\* it render.
BufferWellFormed ==
    buffer = "live" =>
        /\ bytes = expect \o (IF rowLog = <<>> THEN <<>> ELSE RowBytes(rowLog))
        /\ Completed(bytes) = expect
        /\ rstate = "NeedTable" <=> rowLog = <<>>

\* C18: in every state the LineBuffer holds complete newline-terminated rows
\* followed by at most one row in progress, and a row-building call that
\* fails leaves the completed portion as it was or discards the whole buffer.
C18_BufferInvariant ==
    [][/\ BufferWellFormed'
       /\ (last'.op \in RowOps \cup {"row"} /\ last'.threw > 0 /\ buffer = "live")
            => \/ buffer' = "live" /\ bytes' = bytes
               \/ buffer' = "freed" /\ bytes' = <<>>]_vars

C18_Witness ==
    /\ last.op = "row" /\ last.threw = 1 /\ buffer = "live"
    /\ Count(bytes, "\n") = 1 /\ rstate = "InColumns" /\ Completed(bytes) # bytes

\* C20: table() while a row is in progress, and symbol, a column call, at or
\* atNow while no table is set, fail with an error and append nothing; a
\* successful at/atNow leaves the row state NeedTable, where table() is
\* accepted again.
C20_RowStateRejection ==
    [][/\ (/\ Connected
           /\ \/ last'.op = "table" /\ rstate # "NeedTable"
              \/ last'.op \in FieldOps \cup {"at", "atNow"} /\ rstate = "NeedTable")
            => (last'.threw > 0 /\ buffer' # "live" /\ bytes' = <<>>)
       /\ (last'.op \in {"at", "atNow"} /\ Connected /\ last'.threw = 0)
            => (Connected' /\ rstate' = "NeedTable")
       /\ (last'.op = "table" /\ Connected /\ rstate = "NeedTable")
            => /\ last'.thrown # "ProtocolOrderViolation"
               /\ last'.threw = 0 => (Connected' /\ rstate' = "NeedFirstField"
                                        /\ Len(bytes') = Len(bytes) + 1)]_vars

C20_Witness ==
    /\ last.op = "table" /\ last.conn /\ last.rstate = "InColumns"
    /\ last.thrown = "ProtocolOrderViolation" /\ last.threw = 1 /\ buffer = "freed"

\* C19: a call on one Sender leaves the other Sender's state, configuration,
\* LineBuffer contents and Transport unchanged.
C19_Independent ==
    [][/\ last'.op # "peer" => peer' = peer
       /\ last'.op = "peer" =>
            UNCHANGED <<err, opts, sender, buffer, cfg, errMsg, bytes, rstate>>]_vars

\* C21: a call whose validation step fails reports exactly one error, runs the
\* teardown exactly once and runs no later step: none that calls the library
\* again, writes into the configuration or appends to the buffer.
C21_StopsAtFirstError ==
    [][last'.thrown = "InvalidArgument"
        => /\ last'.threw = 1 /\ last'.teardowns = 1
           /\ ~last'.ub /\ ~crashed'
           /\ opts' # "live" /\ buffer' # "live"]_vars

\* C22: no native handle is released a second time or passed to the library
\* after its release.  close() hands the Transport, and flush, at and atNow
\* hand the LineBuffer, to the library as their first step: called when that
\* handle has been released they neither release it again nor use it.
C22_ReleasedAtMostOnce ==
    [][/\ (last'.op = "close" /\ sender = "freed")
            => (~dbl'["sender"] /\ ~last'.ub /\ ~crashed')
       /\ (last'.op \in {"flush", "at", "atNow"} /\ buffer = "freed")
            => (\A k \in Kinds : ~dbl'[k]) /\ ~last'.ub /\ ~crashed']_vars

\* C23: enableTLS, enableTLSWithCA, withAuth and connect on a Sender that has
\* no configuration do not go through the absent configuration, and connect()
\* then returns false or reports an error and does not connect.
C23_NoAbsentConfigUse ==
    [][(last'.op \in {"enableTLS", "enableTLSWithCA", "withAuth", "connect"} /\ opts = "NULL")
        => /\ ~last'.ub /\ ~crashed'
           /\ last'.op = "connect" => ((last'.ret = "false" \/ last'.threw > 0) /\ ~Connected')]_vars

\* C24: endpoint(host, port) called again before connect replaces the
\* endpoint: the Sender holds exactly one configuration, that of the latest
\* call, and the earlier configuration object has been released.
C24_EndPointReplaces ==
    [][(last'.op = "endpoint" /\ opts = "live")
        => /\ opts' = "live" /\ cfg'.port = Truncate(last'.arg) % 65536
           /\ leaked'["opts"] = leaked["opts"]]_vars
====
